---------------------------- MODULE Spec2Model ----------------------------
(***************************************************************************)
(* A model of rust-assistant: the crate cache (cache.rs, app.rs), the      *)
(* download pipeline (download.rs), the package index build and the query  *)
(* engines (cache.rs) and the basic-auth middleware (axum.rs).             *)
(*                                                                         *)
(* Bytes are naturals (10 is '\n', 97 is 'a', 255 never occurs in UTF-8).  *)
(* A path is a sequence of component names; the empty sequence is the      *)
(* empty path "".                                                          *)
(***************************************************************************)
EXTENDS Integers, Sequences, FiniteSets, TLC

VARIABLES
    cache,      \* CrateCache: [cap, lru], lru most recently used first
    lock,       \* holder of the cache mutex (a request), or NoReq
    req,        \* per request task: position in RustAssistant::get_crate and locals
    calls,      \* get_crate calls issued so far
    asked,      \* how many distinct crate versions have been asked for
    recency,    \* every key got or put so far, most recently used first
    inserted,   \* every key put so far, most recently inserted first
    tar,        \* CrateTar handed to Crate::try_from
    krate,      \* the built Crate (or NoCrate)
    query,      \* the last query issued against krate
    out,        \* the result of the last query
    authInfo,   \* the configured credentials (or NoAuth)
    request,    \* the HTTP request being served
    response    \* its response

cacheVars == <<cache, lock, req, calls, asked, recency, inserted>>
crateVars == <<tar, krate, query, out>>
authVars  == <<authInfo, request, response>>
vars      == <<cache, lock, req, calls, asked, recency, inserted,
               tar, krate, query, out, authInfo, request, response>>

---------------------------------------------------------------------------
(* Bounds *)

NumReqs  == 2   \* concurrent request tasks
MaxCalls == 3   \* get_crate calls in one run
Capacity == 2   \* CrateCache::new(capacity)

---------------------------------------------------------------------------
(* Bytes, options *)

NL == 10             \* '\n', the only line terminator the code looks for
InvalidByte == 255   \* a byte that occurs in no UTF-8 sequence

None    == [some |-> FALSE]
Some(v) == [some |-> TRUE, val |-> v]

Last(s) == s[Len(s)]

SeqToSet(s) == {s[i] : i \in 1..Len(s)}

\* HashMap::insert
MapInsert(m, k, v) == [x \in (DOMAIN m) \cup {k} |-> IF x = k THEN v ELSE m[x]]

UsizeMax == 2147483647   \* usize::MAX, at the width of the checker's integers

---------------------------------------------------------------------------
(* CrateVersion (lib.rs) and paths *)

CrateVersion(k, v) == [krate |-> k, version |-> v]

\* root_dir(): format!("{}-{}", krate, version), kept as the pair it is made of
root_dir(cv) == <<cv.krate, cv.version>>

\* Path::parent(), with unwrap_or_default() for the empty path
Parent(p) == IF p = <<>> THEN <<>> ELSE SubSeq(p, 1, Len(p) - 1)

\* Path::starts_with(): whole components only
StartsWith(p, prefix) ==
    /\ Len(prefix) <= Len(p)
    /\ SubSeq(p, 1, Len(prefix)) = prefix

\* Path::extension() of a file name, over the names the model uses:
\* the part after the last '.', none for a name without one or starting with it
Extension(name) ==
    CASE name \in {"lib.rs", "c.rs", "m.rs"} -> Some("rs")
      [] name = "x.RS"       -> Some("RS")
      [] name = "Cargo.toml" -> Some("toml")
      [] name = "bin.dat"    -> Some("dat")
      [] OTHER               -> None

\* str::to_ascii_lowercase over the extensions the model uses
LowerExt(e) == IF e = "RS" THEN "rs" ELSE e

eq_ignore_ascii_case(a, b) == LowerExt(a) = LowerExt(b)

---------------------------------------------------------------------------
(* The declaration index (search.rs)                                       *)
(*                                                                         *)
(* Names and queries are sequences of bytes.  A parsed file is the         *)
(* sequence of the syn items the visitor is called on, each                *)
(* [item, ident, attrs, trait_, self_ty, start, end]: item is the syn item *)
(* type, ident and trait_ are options, attrs is a sequence of              *)
(* [name, line], start and end are the lines of the item's span.           *)

ToLower(b) == IF b \in 65..90 THEN b + 32 ELSE b

\* str::to_lowercase
to_lowercase(name) == [i \in 1..Len(name) |-> ToLower(name[i])]

\* str::contains
Contains(name, needle) ==
    \E o \in 0..(Len(name) - Len(needle)) : SubSeq(name, o + 1, o + Len(needle)) = needle

\* The maps of SearchIndexMut, in the order search merges them
IndexMaps ==
    <<"structs", "enums", "traits", "impl_types", "impl_trait_for_types",
      "macros", "attribute_macros", "functions", "type_aliases">>

\* SearchIndexMut::default()
EmptyIndex == [m \in SeqToSet(IndexMaps) |-> <<>>]

\* The map a search for an ItemType reads
MapOf(type_) ==
    CASE type_ = "Struct"           -> "structs"
      [] type_ = "Enum"             -> "enums"
      [] type_ = "Trait"            -> "traits"
      [] type_ = "ImplType"         -> "impl_types"
      [] type_ = "ImplTraitForType" -> "impl_trait_for_types"
      [] type_ = "Macro"            -> "macros"
      [] type_ = "AttributeMacro"   -> "attribute_macros"
      [] type_ = "Function"         -> "functions"
      [] type_ = "TypeAlias"        -> "type_aliases"

\* IndexVisitor::create_item: the span widened to the doc attributes above
\* it; a line 0 becomes NonZeroUsize::MIN at the start, ::MAX at the end
create_item(name, type_, file, decl) ==
    LET doc_lines  == {decl.attrs[i].line :
                          i \in {j \in 1..Len(decl.attrs) : decl.attrs[j].name = "doc"}}
        starts     == {decl.start} \cup doc_lines
        start_line == CHOOSE x \in starts : \A y \in starts : x <= y
    IN [name |-> name, type_ |-> type_, file |-> file,
        line_range |-> [start |-> IF start_line = 0 THEN 1 ELSE start_line,
                        end   |-> IF decl.end = 0 THEN UsizeMax ELSE decl.end]]

\* map.entry(item.name.to_lowercase()).or_default().push(item)
PushItem(index, map, item) ==
    LET key == to_lowercase(item.name)
    IN [index EXCEPT ![map] =
            MapInsert(@, key, IF key \in DOMAIN @ THEN Append(@[key], item)
                              ELSE <<item>>)]

\* is_attribute_macro
is_attribute_macro(attrs) ==
    \E i \in 1..Len(attrs) : attrs[i].name = "proc_macro_attribute"

ImplWord == <<105, 109, 112, 108, 32>>   \* "impl "
ForWord  == <<32, 102, 111, 114, 32>>    \* " for "

\* impl Visit for IndexVisitor: the visit_item_* method of one syn item
VisitItem(index, file, decl) ==
    CASE decl.item = "Enum" ->
            PushItem(index, "enums", create_item(decl.ident.val, "Enum", file, decl))
      [] decl.item = "Fn" ->
            IF is_attribute_macro(decl.attrs)
            THEN PushItem(index, "attribute_macros",
                          create_item(decl.ident.val, "AttributeMacro", file, decl))
            ELSE PushItem(index, "functions",
                          create_item(decl.ident.val, "Function", file, decl))
      [] decl.item = "Impl" ->
            IF decl.trait_.some
            THEN PushItem(index, "impl_trait_for_types",
                          create_item(ImplWord \o decl.trait_.val \o ForWord \o decl.self_ty,
                                      "ImplTraitForType", file, decl))
            ELSE PushItem(index, "impl_types",
                          create_item(ImplWord \o decl.self_ty, "ImplType", file, decl))
      [] decl.item = "Macro" ->
            IF decl.ident.some
            THEN PushItem(index, "macros",
                          create_item(decl.ident.val, "Macro", file, decl))
            ELSE index
      [] decl.item = "Struct" ->
            PushItem(index, "structs", create_item(decl.ident.val, "Struct", file, decl))
      [] decl.item = "Trait" ->
            PushItem(index, "traits", create_item(decl.ident.val, "Trait", file, decl))
      [] decl.item = "Type" ->
            PushItem(index, "type_aliases",
                     create_item(decl.ident.val, "TypeAlias", file, decl))
      [] OTHER -> index

\* syn::visit::visit_file: the items of the file in order
RECURSIVE VisitFile(_, _, _, _)
VisitFile(index, file, ast, i) ==
    IF i > Len(ast) THEN index
    ELSE VisitFile(VisitItem(index, file, ast[i]), file, ast, i + 1)

\* SearchIndexBuilder::update: a file that does not parse adds nothing
update(index, file, parsed) ==
    IF parsed.some THEN VisitFile(index, file, parsed.val, 1) ELSE index

\* filter_items: the items of the keys that contain the query, the keys in
\* the order the map iterates them
RECURSIVE filter_items(_, _, _, _)
filter_items(needle, items, order, i) ==
    IF i > Len(order) THEN <<>>
    ELSE (IF order[i] \in DOMAIN items /\ Contains(order[i], needle)
          THEN items[order[i]] ELSE <<>>)
         \o filter_items(needle, items, order, i + 1)

\* The ItemType::All arm: the nine maps one after the other
RECURSIVE SearchAll(_, _, _, _)
SearchAll(index, needle, order, m) ==
    IF m > Len(IndexMaps) THEN <<>>
    ELSE filter_items(needle, index[IndexMaps[m]], order, 1)
         \o SearchAll(index, needle, order, m + 1)

\* A search that takes the query as it is written
search_QueryAsWritten(index, type_, needle, order) ==
    IF type_ = "All" THEN SearchAll(index, needle, order, 1)
    ELSE filter_items(needle, index[MapOf(type_)], order, 1)

\* SearchIndexMut::search(type_, query)
search(index, type_, needle, order) ==
    LET lowered == to_lowercase(needle)
    IN IF type_ = "All" THEN SearchAll(index, lowered, order, 1)
       ELSE filter_items(lowered, index[MapOf(type_)], order, 1)

\* A search that does not look at the path of the query
PathScope_Unscoped(items, path) == items

\* The path of an ItemQuery: the items whose file lies under it
PathScope(items, path) ==
    IF path.some THEN SelectSeq(items, LAMBDA it : StartsWith(it.file, path.val))
    ELSE items

---------------------------------------------------------------------------
(* Crate::try_from(CrateTar): the index build (cache.rs)                   *)
(*                                                                         *)
(* A CrateTar is [crate_version, open_ok, entries]; an entry is            *)
(* [hdr_ok, path_ok, root, rel, type, read_ok, content, ast]: root and rel *)
(* are the first component and the rest of the entry's path, ast is what   *)
(* syn::parse_file makes of the content (None when it does not parse).     *)

\* std::str::from_utf8 on the byte alphabet of the model (ASCII and InvalidByte)
IsUtf8(bytes) == \A i \in 1..Len(bytes) : bytes[i] < 128

EmptyBuild ==
    [ok |-> TRUE, data |-> <<>>, files_index |-> <<>>, directories_index |-> <<>>,
     index |-> EmptyIndex]

\* directories_index.entry(parent).and_modify(insert filename).or_insert(..)
AddFileToDirectory(di, parent, filename) ==
    IF parent \in DOMAIN di
    THEN [di EXCEPT ![parent].files = @ \cup {filename}]
    ELSE MapInsert(di, parent, [files |-> {filename}, directories |-> {}])

\* One turn of the loop over the tar entries
BuildEntry(st, cv, e) ==
    IF ~st.ok THEN st
    ELSE IF ~e.hdr_ok THEN st
    ELSE IF ~e.path_ok THEN st
    ELSE IF e.root # root_dir(cv) THEN st
    ELSE IF e.rel = <<>> THEN st
    ELSE IF e.type # "Regular" THEN st
    ELSE IF ~e.read_ok THEN [st EXCEPT !.ok = FALSE]
    ELSE LET path      == e.rel
             filename  == Last(path)
             is_rust_src == /\ Extension(filename).some
                            /\ eq_ignore_ascii_case(Extension(filename).val, "rs")
             data_type == IF IsUtf8(e.content) THEN "Utf8" ELSE "NonUtf8"
             range     == [start |-> Len(st.data),
                           end   |-> Len(st.data) + Len(e.content)]
         IN [st EXCEPT
               !.data = st.data \o e.content,
               !.index = IF data_type = "Utf8" /\ is_rust_src
                         THEN update(st.index, path, e.ast) ELSE st.index,
               !.files_index =
                   MapInsert(st.files_index, path,
                             [data_type |-> data_type, range |-> range]),
               !.directories_index =
                   AddFileToDirectory(st.directories_index, Parent(path), filename)]

RECURSIVE BuildEntries(_, _, _, _)
BuildEntries(st, cv, entries, i) ==
    IF i > Len(entries) THEN st
    ELSE BuildEntries(BuildEntry(st, cv, entries[i]), cv, entries, i + 1)

\* The second loop: the last component of every key of directories_index,
\* filed under the key's parent
SubdirectoriesIndex(di) ==
    LET keys == {k \in DOMAIN di : k # <<>>}
    IN [p \in {Parent(k) : k \in keys} |->
            {Last(k) : k \in {k2 \in keys : Parent(k2) = p}}]

\* The third loop: and_modify sets the directories, or_insert adds a listing
MergeSubdirectories(di, si) ==
    [p \in (DOMAIN di) \cup (DOMAIN si) |->
        [files       |-> IF p \in DOMAIN di THEN di[p].files ELSE {},
         directories |-> IF p \in DOMAIN si THEN si[p]
                         ELSE di[p].directories]]

NoCrate == [ok |-> FALSE]

CrateTryFrom(t) ==
    IF ~t.open_ok THEN NoCrate
    ELSE LET st == BuildEntries(EmptyBuild, t.crate_version, t.entries, 1)
         IN IF ~st.ok THEN NoCrate
            ELSE [ok |-> TRUE,
                  data |-> st.data,
                  files_index |-> st.files_index,
                  item_search_index |-> st.index,
                  directories_index |->
                      MergeSubdirectories(st.directories_index,
                          SubdirectoriesIndex(st.directories_index))]

\* Crate::read_directory
read_directory(c, path) ==
    IF path \in DOMAIN c.directories_index
    THEN Some(c.directories_index[path])
    ELSE None

\* Crate::search_item: the search of the index with the ItemQuery; order is
\* the order in which the maps of the index iterate their keys
search_item(c, q, order) ==
    PathScope(search(c.item_search_index, q.type_, q.query, order), q.path)

---------------------------------------------------------------------------
(* Crate::get_file_by_line_range (cache.rs)                                *)
(*                                                                         *)
(* A bound of the line range is [kind, n], kind one of Unbounded,          *)
(* Included, Excluded.  Offsets are 0-based as in the code: the byte at    *)
(* offset o of a sequence s is s[o + 1].                                   *)

Unbounded   == [kind |-> "Unbounded", n |-> 0]
Included(n) == [kind |-> "Included", n |-> n]
Excluded(n) == [kind |-> "Excluded", n |-> n]

\* Bytes::slice(lo..hi)
Slice(data, lo, hi) == SubSeq(data, lo + 1, hi)

\* s[from..].find('\n'): the offset past `from` of the first terminator, or -1
RECURSIVE FindNl(_, _, _)
FindNl(s, from, pos) ==
    IF from + pos >= Len(s) THEN -1
    ELSE IF s[from + pos + 1] = NL THEN pos
    ELSE FindNl(s, from, pos + 1)

\* The first loop: for _ in 0..start_line, stepping over one terminator a turn
RECURSIVE LocateStart(_, _, _, _)
LocateStart(s, line_start, current_line, turns) ==
    IF turns <= 0 THEN [line_start |-> line_start, current_line |-> current_line]
    ELSE LET pos == FindNl(s, line_start, 0)
         IN IF pos = -1
            THEN [line_start |-> line_start, current_line |-> current_line]
            ELSE LocateStart(s, line_start + pos + 1, current_line + 1, turns - 1)

\* The second loop: for _ in current_line..end_line
RECURSIVE LocateEnd(_, _, _)
LocateEnd(s, line_end, turns) ==
    IF turns <= 0 THEN line_end
    ELSE LET pos == FindNl(s, line_end, 0)
         IN IF pos = -1 THEN line_end
            ELSE LocateEnd(s, line_end + pos + 1, turns - 1)

StartLine(b) ==
    CASE b.kind = "Included" -> b.n - 1
      [] b.kind = "Excluded" -> b.n
      [] OTHER               -> 0

EndLine(b) ==
    CASE b.kind = "Included" -> b.n
      [] b.kind = "Excluded" -> b.n - 1
      [] OTHER               -> UsizeMax

FileErr  == [kind |-> "Err"]
FileNone == [kind |-> "None"]
FileSome(data_type, lo, hi, data) ==
    [kind |-> "Some", data_type |-> data_type, lo |-> lo, hi |-> hi, data |-> data]

\* A line search that runs on the buffer from the start of the file on,
\* without the end of the file
LineRangeOf_ToEndOfBuffer(c, range, start_bound, end_bound) ==
    LET s          == Slice(c.data, range.start, Len(c.data))
        start_line == StartLine(start_bound)
        end_line   == EndLine(end_bound)
        st         == LocateStart(s, 0, 0, start_line)
        line_start == st.line_start
        line_end   == IF st.current_line < end_line
                      THEN LocateEnd(s, line_start, end_line - st.current_line)
                      ELSE Len(s)
    IN IF line_start < line_end
       THEN FileSome("Utf8", range.start + line_start, range.start + line_end,
                     Slice(c.data, range.start + line_start, range.start + line_end))
       ELSE FileNone

\* The part of get_file_by_line_range after the NonUtf8 guard
LineRangeOf(c, range, start_bound, end_bound) ==
    LET s          == Slice(c.data, range.start, range.end)
        start_line == StartLine(start_bound)
        end_line   == EndLine(end_bound)
        st         == LocateStart(s, 0, 0, start_line)
        line_start == st.line_start
        line_end   == IF st.current_line < end_line
                      THEN LocateEnd(s, line_start, end_line - st.current_line)
                      ELSE Len(s)
    IN IF line_start < line_end
       THEN FileSome("Utf8", range.start + line_start, range.start + line_end,
                     Slice(c.data, range.start + line_start, range.start + line_end))
       ELSE FileNone

\* A read that tests for NonUtf8 before it looks at the bounds
get_file_by_line_range_GuardFirst(c, file, start_bound, end_bound) ==
    IF file \notin DOMAIN c.files_index THEN FileNone
    ELSE LET desc == c.files_index[file]
         IN IF desc.data_type = "NonUtf8" THEN FileErr
            ELSE IF start_bound.kind = "Unbounded" /\ end_bound.kind = "Unbounded"
            THEN FileSome(desc.data_type, desc.range.start, desc.range.end,
                          Slice(c.data, desc.range.start, desc.range.end))
            ELSE LineRangeOf(c, desc.range, start_bound, end_bound)

get_file_by_line_range(c, file, start_bound, end_bound) ==
    IF file \notin DOMAIN c.files_index THEN FileNone
    ELSE LET desc == c.files_index[file]
         IN IF start_bound.kind = "Unbounded" /\ end_bound.kind = "Unbounded"
            THEN FileSome(desc.data_type, desc.range.start, desc.range.end,
                          Slice(c.data, desc.range.start, desc.range.end))
            ELSE IF desc.data_type = "NonUtf8" THEN FileErr
            ELSE LineRangeOf(c, desc.range, start_bound, end_bound)

\* Crate::get_file_by_file_line_range: FileLineRange {start, end} of options
get_file_by_file_line_range(c, file, flr) ==
    get_file_by_line_range(c, file,
        IF flr.start.some THEN Included(flr.start.val) ELSE Unbounded,
        IF flr.end.some THEN Included(flr.end.val) ELSE Unbounded)

---------------------------------------------------------------------------
(* Crate::search_line (cache.rs)                                           *)
(*                                                                         *)
(* A LineQuery is [query, mode, compiles, case_sensitive, whole_word,      *)
(* max_results, file_ext, path].  query is the pattern's bytes; patterns   *)
(* are literals, and compiles says whether RegexBuilder::build accepts the *)
(* pattern in Regex mode (regex::escape makes every PlainText pattern      *)
(* compile).  file_ext is the sequence of segments between the commas.     *)

CR == 13   \* '\r', which BufRead::lines strips before a terminator

\* str::trim over the segments the model uses
Trim(seg) ==
    CASE seg = " rs " -> "rs"
      [] seg = " "    -> ""
      [] OTHER        -> seg

\* split(",").map(trim).filter(not empty).collect()
ParseFileExt(segs) ==
    SelectSeq([i \in 1..Len(segs) |-> Trim(segs[i])], LAMBDA x : x # "")

\* BufRead::lines over a byte slice: the lines without their terminator
\* ("\n" or "\r\n"); a last line without terminator is a line too
RECURSIVE ReadLines(_, _)
ReadLines(s, from) ==
    IF from >= Len(s) THEN <<>>
    ELSE LET pos == FindNl(s, from, 0)
         IN IF pos = -1 THEN <<Slice(s, from, Len(s))>>
            ELSE LET raw  == Slice(s, from, from + pos)
                     line == IF raw # <<>> /\ Last(raw) = CR
                             THEN SubSeq(raw, 1, Len(raw) - 1) ELSE raw
                 IN <<line>> \o ReadLines(s, from + pos + 1)

IsWordByte(b) == b \in (48..57) \cup (65..90) \cup (97..122) \cup {95}

\* \b at offset o of line: a word byte on exactly one side
WordBoundary(line, o) ==
    LET before == o >= 1 /\ IsWordByte(line[o])
        after  == o < Len(line) /\ IsWordByte(line[o + 1])
    IN before # after

MatchesAt(line, o, q) ==
    /\ o + Len(q.query) <= Len(line)
    /\ \A j \in 1..Len(q.query) :
          IF q.case_sensitive THEN line[o + j] = q.query[j]
          ELSE ToLower(line[o + j]) = ToLower(q.query[j])
    /\ q.whole_word =>
          WordBoundary(line, o) /\ WordBoundary(line, o + Len(q.query))

\* A find that reports the rightmost match of the line
RegexFind_Rightmost(line, q) ==
    LET hits == {o \in 0..Len(line) : MatchesAt(line, o, q)}
    IN IF hits = {} THEN None
       ELSE LET o == CHOOSE x \in hits : \A y \in hits : x >= y
            IN Some([start |-> o, end |-> o + Len(q.query)])

\* Regex::find: the leftmost match, as offsets [start, end)
RegexFind(line, q) ==
    LET hits == {o \in 0..Len(line) : MatchesAt(line, o, q)}
    IN IF hits = {} THEN None
       ELSE LET o == CHOOSE x \in hits : \A y \in hits : x <= y
            IN Some([start |-> o, end |-> o + Len(q.query)])

\* A cap that stops one match late
MaxReached_OneLate(q, results) ==
    q.max_results.some /\ Len(results) > q.max_results.val

\* results.len() >= max_results.get(), when max_results is given
MaxReached(q, results) ==
    q.max_results.some /\ Len(results) >= q.max_results.val

SearchOk(results) == [ok |-> TRUE, results |-> results]
SearchErr == [ok |-> FALSE, results |-> <<>>]

\* The inner loop over the lines of one file
RECURSIVE ScanLines(_, _, _, _, _)
ScanLines(lines, i, path, q, results) ==
    IF i > Len(lines) THEN SearchOk(results)
    ELSE IF ~IsUtf8(lines[i]) THEN SearchErr
    ELSE LET mat == RegexFind(lines[i], q)
         IN IF ~mat.some THEN ScanLines(lines, i + 1, path, q, results)
            ELSE LET found == Append(results,
                                [line |-> lines[i], file |-> path, line_number |-> i,
                                 column_range |-> [start |-> mat.val.start + 1,
                                                   end   |-> mat.val.end + 1]])
                 IN IF MaxReached(q, found) THEN SearchOk(found)
                    ELSE ScanLines(lines, i + 1, path, q, found)

\* Filters that let a file without extension through
PassesFilters_NoExtensionPasses(path, q, file_ext) ==
    /\ q.path.some => StartsWith(path, q.path.val)
    /\ file_ext # <<>> =>
          LET extension == Extension(Last(path))
          IN extension.some =>
                \E i \in 1..Len(file_ext) :
                    eq_ignore_ascii_case(extension.val, file_ext[i])

\* The path and extension filters of one file
PassesFilters(path, q, file_ext) ==
    /\ q.path.some => StartsWith(path, q.path.val)
    /\ file_ext # <<>> =>
          LET extension == Extension(Last(path))
          IN /\ extension.some
             /\ \E i \in 1..Len(file_ext) :
                   eq_ignore_ascii_case(extension.val, file_ext[i])

\* An outer loop without the check of the cap after a file
RECURSIVE ScanFiles_InnerBreakOnly(_, _, _, _, _, _)
ScanFiles_InnerBreakOnly(c, order, j, q, file_ext, results) ==
    IF j > Len(order) THEN SearchOk(results)
    ELSE IF ~PassesFilters(order[j], q, file_ext)
    THEN ScanFiles_InnerBreakOnly(c, order, j + 1, q, file_ext, results)
    ELSE LET range   == c.files_index[order[j]].range
             content == Slice(c.data, range.start, range.end)
             scanned == ScanLines(ReadLines(content, 0), 1, order[j], q, results)
         IN IF ~scanned.ok THEN SearchErr
            ELSE ScanFiles_InnerBreakOnly(c, order, j + 1, q, file_ext, scanned.results)

\* The outer loop over files_index, in the order the map iterates
RECURSIVE ScanFiles(_, _, _, _, _, _)
ScanFiles(c, order, j, q, file_ext, results) ==
    IF j > Len(order) THEN SearchOk(results)
    ELSE IF ~PassesFilters(order[j], q, file_ext)
    THEN ScanFiles(c, order, j + 1, q, file_ext, results)
    ELSE LET range   == c.files_index[order[j]].range
             content == Slice(c.data, range.start, range.end)
             scanned == ScanLines(ReadLines(content, 0), 1, order[j], q, results)
         IN IF ~scanned.ok THEN SearchErr
            ELSE IF MaxReached(q, scanned.results) THEN scanned
            ELSE ScanFiles(c, order, j + 1, q, file_ext, scanned.results)

\* order: the iteration order of the files_index hash map
search_line(c, q, order) ==
    IF q.mode = "Regex" /\ ~q.compiles THEN SearchErr
    ELSE ScanFiles(c, order, 1, q, ParseFileExt(q.file_ext), <<>>)

\* The orders in which a hash map may iterate its keys
Orders(keys) ==
    {o \in [1..Cardinality(keys) -> keys] : \A k \in keys : \E i \in DOMAIN o : o[i] = k}

---------------------------------------------------------------------------
(* CrateCache (cache.rs): an LruCache behind a mutex.                      *)
(* The lru is a sequence of [key, val], most recently used first.          *)

CacheKeys(l) == {l[i].key : i \in 1..Len(l)}

IndexOf(l, k) == CHOOSE i \in 1..Len(l) : l[i].key = k

Without(l, i) == SubSeq(l, 1, i - 1) \o SubSeq(l, i + 1, Len(l))

\* A get that reads the value and leaves the order of the entries alone
LruGet_NoTouch(l, k) ==
    IF k \in CacheKeys(l)
    THEN [found |-> TRUE, val |-> l[IndexOf(l, k)].val, lru |-> l]
    ELSE [found |-> FALSE, lru |-> l]

\* LruCache::get: the value, and the entry moved to the front
LruGet(l, k) ==
    IF k \in CacheKeys(l)
    THEN LET i == IndexOf(l, k)
         IN [found |-> TRUE, val |-> l[i].val, lru |-> <<l[i]>> \o Without(l, i)]
    ELSE [found |-> FALSE, lru |-> l]

\* A put that at capacity drops the most recently used entry
LruPut_DropsNewest(l, cap, k, v) ==
    IF k \in CacheKeys(l)
    THEN <<[key |-> k, val |-> v]>> \o Without(l, IndexOf(l, k))
    ELSE IF Len(l) >= cap
    THEN <<[key |-> k, val |-> v]>> \o SubSeq(l, 2, cap)
    ELSE <<[key |-> k, val |-> v]>> \o l

\* A put that inserts without looking for the key or at the capacity
LruPut_Appends(l, cap, k, v) == <<[key |-> k, val |-> v]>> \o l

\* LruCache::put: replaces the value of a present key, else inserts and,
\* at capacity, drops the least recently used entry
LruPut(l, cap, k, v) ==
    IF k \in CacheKeys(l)
    THEN <<[key |-> k, val |-> v]>> \o Without(l, IndexOf(l, k))
    ELSE IF Len(l) >= cap
    THEN <<[key |-> k, val |-> v]>> \o SubSeq(l, 1, cap - 1)
    ELSE <<[key |-> k, val |-> v]>> \o l

\* CrateCache::new
NewCrateCache(capacity) == [cap |-> capacity, lru |-> <<>>]

---------------------------------------------------------------------------
(* The registry: the crates a run asks for and the archive of each         *)

NumKeys == Capacity + 1

KeyOf(i) == CrateVersion(IF i % 2 = 1 THEN "tokio" ELSE "serde", (i + 1) \div 2)

RegularFile(cv, rel, content) ==
    [hdr_ok |-> TRUE, path_ok |-> TRUE, root |-> root_dir(cv), rel |-> rel,
     type |-> "Regular", read_ok |-> TRUE, content |-> content, ast |-> None]

\* The archive static.crates.io serves for a crate version: a manifest and a
\* library source whose sizes differ from one version to the next
RegistryTar(cv) ==
    [crate_version |-> cv, open_ok |-> TRUE,
     entries |-> <<RegularFile(cv, <<"Cargo.toml">>, [i \in 1..cv.version |-> 97]),
                   RegularFile(cv, <<"src", "lib.rs">>,
                       IF cv.krate = "tokio" THEN <<97, NL>> ELSE <<97, NL, 97>>)>>]

\* The same archive cut short: reading its last entry fails
TruncatedTar(cv) ==
    [RegistryTar(cv) EXCEPT !.entries[2].read_ok = FALSE]

---------------------------------------------------------------------------
(* RustAssistant::get_crate (app.rs) with CrateDownloader::                *)
(* download_crate_file (download.rs), one action per step between two      *)
(* suspension points or lock operations.                                   *)

Reqs  == 1..NumReqs
NoReq == 0

NoResult == [kind |-> "None"]
Ok(c)    == [kind |-> "Ok", krate |-> c]
Err(why) == [kind |-> "Err", why |-> why]

IdleReq ==
    [pc |-> "idle", key |-> KeyOf(1), body |-> "none", tar |-> NoCrate,
     krate |-> NoCrate, res |-> NoResult,
     cached |-> FALSE, downloads |-> 0, builds |-> 0, retry |-> FALSE]

InitCache ==
    /\ cache = NewCrateCache(Capacity)
    /\ lock = NoReq
    /\ req = [r \in Reqs |-> IdleReq]
    /\ calls = 0
    /\ asked = 0
    /\ recency = <<>>
    /\ inserted = <<>>

\* A handler calls get_crate(crate_version).  Tasks and crate versions are
\* interchangeable: a request is served by the first task that is free, and
\* the crate versions of a run are numbered in the order they are first
\* asked for.
Call(r, i) ==
    /\ req[r].pc = "idle"
    /\ \A r2 \in 1..(r - 1) : req[r2].pc # "idle"
    /\ i <= asked + 1
    /\ calls < MaxCalls
    /\ calls' = calls + 1
    /\ asked' = IF i > asked THEN i ELSE asked
    /\ req' = [req EXCEPT ![r] = [IdleReq EXCEPT !.pc = "get", !.key = KeyOf(i)]]
    /\ UNCHANGED <<cache, lock, recency, inserted>>

\* self.lru.lock(): taken at the get, at the put and at the second get
Lock(r) ==
    /\ req[r].pc \in {"get", "set", "reget"}
    /\ lock = NoReq
    /\ lock' = r
    /\ req' = [req EXCEPT ![r].pc =
                  CASE req[r].pc = "get" -> "get_locked"
                    [] req[r].pc = "set" -> "set_locked"
                    [] OTHER             -> "reget_locked"]
    /\ UNCHANGED <<cache, calls, asked, recency, inserted>>

\* The use of key k, noted in the history of uses
Touch(h, k) == <<k>> \o SelectSeq(h, LAMBDA x : x # k)

\* Whether another task's get_crate for the same key has returned an error
FailedBefore(r) ==
    \E r2 \in Reqs \ {r} :
        /\ req[r2].pc = "done"
        /\ req[r2].res.kind = "Err"
        /\ req[r2].key = req[r].key

\* A match that downloads whatever the cache answered
OnLookup_AlwaysDownloads(rq, got, failed_before) ==
    [rq EXCEPT !.pc = "send", !.downloads = @ + 1, !.retry = failed_before]

\* The match on the result of the first cache.get_crate
OnLookup(rq, got, failed_before) ==
    IF got.found
    THEN [rq EXCEPT !.pc = "done", !.res = Ok(got.val)]
    ELSE [rq EXCEPT !.pc = "send", !.downloads = @ + 1, !.retry = failed_before]

\* A first get whose guard lives on through the match: on a miss the lock
\* is still held while the crate is downloaded and built
CacheGet_GuardInMatch(r) ==
    /\ req[r].pc = "get_locked"
    /\ lock = r
    /\ LET got == LruGet(cache.lru, req[r].key)
       IN /\ cache' = [cache EXCEPT !.lru = got.lru]
          /\ req' = [req EXCEPT ![r] =
                        [OnLookup(req[r], got, FailedBefore(r))
                            EXCEPT !.cached = req[r].key \in CacheKeys(cache.lru)]]
          /\ lock' = IF got.found THEN NoReq ELSE r
    /\ recency' = IF req[r].key \in CacheKeys(cache.lru)
                  THEN Touch(recency, req[r].key) ELSE recency
    /\ inserted' = inserted
    /\ UNCHANGED <<calls, asked>>

\* CrateCache::get_crate under the lock, and the match on its result
CacheGet(r) ==
    /\ req[r].pc = "get_locked"
    /\ lock = r
    /\ LET got == LruGet(cache.lru, req[r].key)
       IN /\ cache' = [cache EXCEPT !.lru = got.lru]
          /\ req' = [req EXCEPT ![r] =
                        [OnLookup(req[r], got, FailedBefore(r))
                            EXCEPT !.cached = req[r].key \in CacheKeys(cache.lru)]]
    /\ recency' = IF req[r].key \in CacheKeys(cache.lru)
                  THEN Touch(recency, req[r].key) ELSE recency
    /\ inserted' = inserted
    /\ lock' = NoReq
    /\ UNCHANGED <<calls, asked>>

\* A failure that leaves an entry without a package behind
Fail_LeavesEntry(r, why) ==
    /\ req' = [req EXCEPT ![r].pc = "done", ![r].res = Err(why)]
    /\ cache' = [cache EXCEPT !.lru =
                    LruPut(cache.lru, cache.cap, req[r].key, NoCrate)]
    /\ UNCHANGED <<lock, calls, asked, recency, inserted>>

\* get_crate returns an error: `?` on a failed step
Fail(r, why) ==
    /\ req' = [req EXCEPT ![r].pc = "done", ![r].res = Err(why)]
    /\ UNCHANGED <<cache, lock, calls, asked, recency, inserted>>

\* client.get(url).send().await, then the status check
Send(r) ==
    /\ req[r].pc = "send"
    /\ \/ Fail(r, "send")
       \/ Fail(r, "status")
       \/ /\ req' = [req EXCEPT ![r].pc = "body"]
          /\ UNCHANGED <<cache, lock, calls, asked, recency, inserted>>

\* resp.bytes().await: what arrives is the crate file, or bytes that are not
\* a gzip stream, or the gzip of a truncated tar
Body(r) ==
    /\ req[r].pc = "body"
    /\ \/ Fail(r, "bytes")
       \/ /\ \E b \in {"crate", "not_gzip", "truncated"} :
                req' = [req EXCEPT ![r].pc = "gunzip", ![r].body = b]
          /\ UNCHANGED <<cache, lock, calls, asked, recency, inserted>>

\* spawn_blocking(GzDecoder::read_to_end).await??
Gunzip(r) ==
    /\ req[r].pc = "gunzip"
    /\ IF req[r].body = "not_gzip" THEN Fail(r, "gzip")
       ELSE /\ req' = [req EXCEPT ![r].pc = "build", ![r].builds = @ + 1,
                          ![r].tar = IF req[r].body = "crate"
                                     THEN RegistryTar(req[r].key)
                                     ELSE TruncatedTar(req[r].key)]
            /\ UNCHANGED <<cache, lock, calls, asked, recency, inserted>>

\* spawn_blocking(Crate::try_from(crate_tar)).await??
Build(r) ==
    /\ req[r].pc = "build"
    /\ LET built == CrateTryFrom(req[r].tar)
       IN IF ~built.ok THEN Fail(r, "build")
          ELSE /\ req' = [req EXCEPT ![r].pc = "set", ![r].krate = built]
               /\ UNCHANGED <<cache, lock, calls, asked, recency, inserted>>

\* A put that frees the package it evicts or replaces, whoever still holds
\* a handle to it
CacheSet_FreesEvicted(r) ==
    /\ req[r].pc = "set_locked"
    /\ lock = r
    /\ LET put == LruPut(cache.lru, cache.cap, req[r].key, req[r].krate)
           gone == (CacheKeys(cache.lru) \ CacheKeys(put)) \cup {req[r].key}
       IN /\ cache' = [cache EXCEPT !.lru = put]
          /\ req' = [r2 \in Reqs |->
                        IF r2 = r THEN [req[r] EXCEPT !.pc = "reget"]
                        ELSE IF req[r2].res.kind = "Ok" /\ req[r2].key \in gone
                        THEN [req[r2] EXCEPT !.res = Ok(NoCrate)]
                        ELSE req[r2]]
    /\ recency' = Touch(recency, req[r].key)
    /\ inserted' = Touch(inserted, req[r].key)
    /\ lock' = NoReq
    /\ UNCHANGED <<calls, asked>>

\* CrateCache::set_crate under the lock
CacheSet(r) ==
    /\ req[r].pc = "set_locked"
    /\ lock = r
    /\ LET put == LruPut(cache.lru, cache.cap, req[r].key, req[r].krate)
       IN /\ cache' = [cache EXCEPT !.lru = put]
          /\ req' = [req EXCEPT ![r].pc = "reget"]
    /\ recency' = Touch(recency, req[r].key)
    /\ inserted' = Touch(inserted, req[r].key)
    /\ lock' = NoReq
    /\ UNCHANGED <<calls, asked>>

\* The second CrateCache::get_crate, and ok_or_else on its result
CacheReget(r) ==
    /\ req[r].pc = "reget_locked"
    /\ lock = r
    /\ LET got == LruGet(cache.lru, req[r].key)
       IN /\ cache' = [cache EXCEPT !.lru = got.lru]
          /\ req' = [req EXCEPT ![r].pc = "done",
                        ![r].res = IF got.found THEN Ok(got.val)
                                   ELSE Err("Failed to get crate")]
    /\ recency' = IF req[r].key \in CacheKeys(cache.lru)
                  THEN Touch(recency, req[r].key) ELSE recency
    /\ inserted' = inserted
    /\ lock' = NoReq
    /\ UNCHANGED <<calls, asked>>

\* A cancellation that leaves the entry of a build in progress in the cache
Cancel_LeavesPartialEntry(r) ==
    /\ req[r].pc \in {"send", "body", "gunzip", "build"}
    /\ req' = [req EXCEPT ![r] = [IdleReq EXCEPT !.pc = "cancelled", !.key = req[r].key,
                                                 !.builds = req[r].builds]]
    /\ cache' = [cache EXCEPT !.lru =
                    IF req[r].pc = "build"
                    THEN LruPut(cache.lru, cache.cap, req[r].key, NoCrate)
                    ELSE cache.lru]
    /\ UNCHANGED <<lock, calls, asked, recency, inserted>>

\* The future of get_crate is dropped at an await: while the request is
\* sent, while the body arrives, while the decompression or the build runs
\* on the blocking pool.  Nothing after the await is executed.
Cancel(r) ==
    /\ req[r].pc \in {"send", "body", "gunzip", "build"}
    /\ req' = [req EXCEPT ![r] = [IdleReq EXCEPT !.pc = "cancelled", !.key = req[r].key,
                                                 !.builds = req[r].builds]]
    /\ UNCHANGED <<cache, lock, calls, asked, recency, inserted>>

\* The handler is done with the result, or was dropped; the task serves the
\* next request
Return(r) ==
    /\ req[r].pc \in {"done", "cancelled"}
    /\ req' = [req EXCEPT ![r] = IdleReq]
    /\ UNCHANGED <<cache, lock, calls, asked, recency, inserted>>

---------------------------------------------------------------------------
(* The router and the RequireAuth middleware (axum.rs)                     *)
(*                                                                         *)
(* A request is [route, authorization]; the Authorization header is        *)
(* [kind], kind one of Absent, Other (another scheme, or Basic that does   *)
(* not decode), or [kind |-> "Basic", username, password].                 *)

StatusBadRequest   == 400   \* the TypedHeader rejection turned into a response
StatusUnauthorized == 401
StatusServerError  == 500   \* the Extension rejection turned into a response

MainRoutes == {"/", "/health", "/privacy-policy"}

ApiRoutes ==
    {"/api/lines/:crate/:version", "/api/items/:crate/:version",
     "/api/file/:crate/:version/*path", "/api/directory/:crate/:version/",
     "/api/directory/:crate/:version/*path",
     "/api/github/directory/:owner/:repo/",
     "/api/github/directory/:owner/:repo/*path",
     "/api/github/file/:owner/:repo/*path"}

\* AuthInfo::check
check(auth_info, basic) ==
    auth_info.username = basic.username /\ auth_info.password = basic.password

\* RequireAuth::from_request_parts; extension is the Extension<AuthInfo> layer
RequireAuth(extension, authorization) ==
    IF authorization.kind # "Basic"
    THEN [ok |-> FALSE, status |-> StatusBadRequest]
    ELSE IF ~extension.some
    THEN [ok |-> FALSE, status |-> StatusServerError]
    ELSE IF check(extension.val, authorization)
    THEN [ok |-> TRUE, status |-> 0]
    ELSE [ok |-> FALSE, status |-> StatusUnauthorized]

\* router(auth_info, ..): the /api routes are layered with the middleware
\* when credentials are given; handler_status is what the handler answers
Serve(auth_info, rq, handler_status) ==
    IF rq.route \in ApiRoutes /\ auth_info.some
    THEN LET auth == RequireAuth(auth_info, rq.authorization)
         IN IF auth.ok
            THEN [status |-> handler_status, handler_ran |-> TRUE]
            ELSE [status |-> auth.status, handler_ran |-> FALSE]
    ELSE [status |-> handler_status, handler_ran |-> TRUE]

Usernames == {"user", "User", ""}
Passwords == {"secret", "Secret", ""}

Headers ==
    {[kind |-> "Absent"], [kind |-> "Other"]}
    \cup {[kind |-> "Basic", username |-> u, password |-> p] :
             u \in Usernames, p \in Passwords}

AuthInfos ==
    {None} \cup {Some([username |-> u, password |-> p]) :
                    u \in Usernames, p \in Passwords}

\* The statuses a handler answers with: 200, 302, 404, 500
HandlerStatuses(route) ==
    IF route = "/" THEN {302}
    ELSE IF route \in MainRoutes THEN {200}
    ELSE {200, 404, 500}

NoRequest  == [route |-> "", authorization |-> [kind |-> "Absent"]]
NoResponse == [status |-> 0, handler_ran |-> FALSE]

---------------------------------------------------------------------------
(* Idle parts: what a specification leaves alone                           *)

NoQuery == [op |-> "none"]
NoOut   == [kind |-> "None"]
NoTar   == [crate_version |-> KeyOf(1), open_ok |-> TRUE, entries |-> <<>>]

InitCrateIdle == tar = NoTar /\ krate = NoCrate /\ query = NoQuery /\ out = NoOut

InitAuthIdle == authInfo = None /\ request = NoRequest /\ response = NoResponse

---------------------------------------------------------------------------
(* SpecCache: concurrent get_crate calls on one RustAssistant              *)

\* A step of get_crate touches neither a package under query nor the router
CacheStep(A) == A /\ UNCHANGED <<crateVars, authVars>>

NextCache ==
    \E r \in Reqs :
        \/ CacheStep(\E i \in 1..NumKeys : Call(r, i))
        \/ CacheStep(Lock(r))
        \/ CacheStep(CacheGet(r))
        \/ CacheStep(Send(r))
        \/ CacheStep(Body(r))
        \/ CacheStep(Gunzip(r))
        \/ CacheStep(Build(r))
        \/ CacheStep(CacheSet(r))
        \/ CacheStep(CacheReget(r))
        \/ CacheStep(Return(r))

Init == InitCache /\ InitCrateIdle /\ InitAuthIdle

SpecCache == Init /\ [][NextCache]_vars

Spec == SpecCache

---------------------------------------------------------------------------
(* SpecCancel: the same calls, each of which the client may drop at an     *)
(* await                                                                   *)

NextCancel ==
    \/ NextCache
    \/ \E r \in Reqs : CacheStep(Cancel(r))

SpecCancel == Init /\ [][NextCancel]_vars

---------------------------------------------------------------------------
(* SpecAuth: requests against a router built with or without credentials   *)

InitAuth ==
    /\ authInfo \in AuthInfos
    /\ request = NoRequest
    /\ response = NoResponse

HandleRequest ==
    /\ request = NoRequest
    /\ \E route \in MainRoutes \cup ApiRoutes, h \in Headers :
        \E st \in HandlerStatuses(route) :
          /\ request' = [route |-> route, authorization |-> h]
          /\ response' = Serve(authInfo, request', st)
          /\ UNCHANGED authInfo

NextAuth == HandleRequest /\ UNCHANGED <<cacheVars, crateVars>>

InitSpecAuth == InitAuth /\ InitCache /\ InitCrateIdle

SpecAuth == InitSpecAuth /\ [][NextAuth]_vars

---------------------------------------------------------------------------
(* The package specifications: a CrateTar is built once, then queried      *)

\* Crate::try_from(crate_tar), which returns the package or an error
BuildCrate ==
    /\ ~krate.ok
    /\ query = NoQuery
    /\ krate' = CrateTryFrom(tar)
    /\ query' = [op |-> "build"]
    /\ UNCHANGED <<tar, out>>

Tokio == KeyOf(1)

Entry(root, rel, type, content) ==
    [hdr_ok |-> TRUE, path_ok |-> TRUE, root |-> root, rel |-> rel,
     type |-> type, read_ok |-> TRUE, content |-> content, ast |-> None]

\* The sequences over a set, up to a length
SeqsUpTo(S, n) == UNION {[1..m -> S] : m \in 0..n}

---------------------------------------------------------------------------
(* SpecBuild: archives of a few entries at several depths, and directory   *)
(* listings of the package built from them                                 *)

MaxEntries == 3   \* entries of an archive

BuildRels ==
    {<<"Cargo.toml">>, <<"src", "lib.rs">>, <<"src", "a", "c.rs">>,
     <<"a", "b", "c.rs">>, <<"a", "m.rs">>}

BuildDirs == {<<>>, <<"src">>, <<"a">>, <<"a", "b">>, <<"src", "a">>}

BuildEntrySet ==
    {Entry(root_dir(Tokio), rel, "Regular", <<97, NL>>) : rel \in BuildRels}
    \cup {Entry(root_dir(Tokio), <<"src", "lib.rs">>, "Regular", <<InvalidByte>>),
          Entry(root_dir(Tokio), <<"src">>, "Directory", <<>>),
          Entry(root_dir(Tokio), <<>>, "Directory", <<>>),
          Entry(root_dir(KeyOf(2)), <<"Cargo.toml">>, "Regular", <<97>>),
          [Entry(root_dir(Tokio), <<"a", "m.rs">>, "Regular", <<97>>)
              EXCEPT !.hdr_ok = FALSE],
          [Entry(root_dir(Tokio), <<"a", "m.rs">>, "Regular", <<97>>)
              EXCEPT !.path_ok = FALSE],
          [Entry(root_dir(Tokio), <<"a", "m.rs">>, "Regular", <<97>>)
              EXCEPT !.read_ok = FALSE]}

InitBuild ==
    /\ tar \in {[crate_version |-> Tokio, open_ok |-> TRUE, entries |-> es] :
                   es \in SeqsUpTo(BuildEntrySet, MaxEntries)}
    /\ krate = NoCrate
    /\ query = NoQuery
    /\ out = NoOut

\* Crate::read_directory(path)
ReadDirectory ==
    /\ krate.ok
    /\ query.op = "build"
    /\ \E path \in BuildDirs :
          /\ query' = [op |-> "read_directory", path |-> path]
          /\ out' = read_directory(krate, path)
    /\ UNCHANGED <<tar, krate>>

NextBuild ==
    \/ BuildCrate /\ UNCHANGED <<cacheVars, authVars>>
    \/ ReadDirectory /\ UNCHANGED <<cacheVars, authVars>>

InitSpecBuild == InitBuild /\ InitCache /\ InitAuthIdle

SpecBuild == InitSpecBuild /\ [][NextBuild]_vars

---------------------------------------------------------------------------
(* SpecFile: a text file of every content up to a length, between two      *)
(* other files, read by line range                                         *)

MaxLen  == 4   \* bytes of the text file
MaxLine == 4   \* the largest line number asked for

TextContents == SeqsUpTo({97, NL}, MaxLen)

FileTar(content) ==
    [crate_version |-> Tokio, open_ok |-> TRUE,
     entries |-> <<Entry(root_dir(Tokio), <<"Cargo.toml">>, "Regular", <<97, NL, 97>>),
                   Entry(root_dir(Tokio), <<"src", "lib.rs">>, "Regular", content),
                   Entry(root_dir(Tokio), <<"bin.dat">>, "Regular",
                         <<97, NL, InvalidByte, NL>>)>>]

InitFile ==
    /\ tar \in {FileTar(content) : content \in TextContents}
    /\ krate = NoCrate
    /\ query = NoQuery
    /\ out = NoOut

Bounds ==
    {Unbounded} \cup {Included(n) : n \in 1..MaxLine}
                \cup {Excluded(n) : n \in 1..MaxLine}

FileNames == {<<"src", "lib.rs">>, <<"bin.dat">>, <<"src">>, <<"does", "not", "exist">>}

\* Crate::get_file_by_line_range(file, range)
GetFile ==
    /\ krate.ok
    /\ query.op = "build"
    /\ \E file \in FileNames, sb \in Bounds, eb \in Bounds :
          /\ query' = [op |-> "get_file", file |-> file, start |-> sb, end |-> eb]
          /\ out' = get_file_by_line_range(krate, file, sb, eb)
    /\ UNCHANGED <<tar, krate>>

NextFile ==
    \/ BuildCrate /\ UNCHANGED <<cacheVars, authVars>>
    \/ GetFile /\ UNCHANGED <<cacheVars, authVars>>

InitSpecFile == InitFile /\ InitCache /\ InitAuthIdle

SpecFile == InitSpecFile /\ [][NextFile]_vars

---------------------------------------------------------------------------
(* SpecSearch: line search over a package of three files, under every      *)
(* iteration order of its files index                                      *)

MaxResults == 3   \* the largest max_results asked for

SearchTar(content, third) ==
    [crate_version |-> Tokio, open_ok |-> TRUE,
     entries |-> <<Entry(root_dir(Tokio), <<"src", "lib.rs">>, "Regular", content),
                   Entry(root_dir(Tokio), <<"x.RS">>, "Regular", <<65, 97, NL, 97>>),
                   third>>]

ThirdFiles ==
    {Entry(root_dir(Tokio), <<"LICENSE">>, "Regular", <<97, 98, NL>>),
     Entry(root_dir(Tokio), <<"src", "bin.dat">>, "Regular", <<97, NL, InvalidByte>>)}

InitSearch ==
    /\ tar \in {SearchTar(content, third) :
                   content \in TextContents, third \in ThirdFiles}
    /\ krate = NoCrate
    /\ query = NoQuery
    /\ out = NoOut

LineQueries ==
    {[query |-> n, mode |-> m.mode, compiles |-> m.compiles,
      case_sensitive |-> f.cs, whole_word |-> f.ww,
      max_results |-> k, file_ext |-> e, path |-> p] :
        n \in {<<97>>, <<97, 97>>},
        m \in {[mode |-> "PlainText", compiles |-> TRUE],
               [mode |-> "Regex", compiles |-> TRUE],
               [mode |-> "Regex", compiles |-> FALSE]},
        f \in {[cs |-> TRUE, ww |-> FALSE], [cs |-> FALSE, ww |-> TRUE]},
        k \in {None} \cup {Some(i) : i \in 1..MaxResults},
        e \in {<<>>, <<"rs">>, <<" rs ", "">>, <<"toml", "dat">>},
        p \in {None, Some(<<"src">>)}}

\* Crate::search_line(query)
SearchLine ==
    /\ krate.ok
    /\ query.op = "build"
    /\ \E q \in LineQueries, order \in Orders(DOMAIN krate.files_index) :
          /\ query' = [op |-> "search_line", q |-> q, order |-> order]
          /\ out' = search_line(krate, q, order)
    /\ UNCHANGED <<tar, krate>>

NextSearch ==
    \/ BuildCrate /\ UNCHANGED <<cacheVars, authVars>>
    \/ SearchLine /\ UNCHANGED <<cacheVars, authVars>>

InitSpecSearch == InitSearch /\ InitCache /\ InitAuthIdle

SpecSearch == InitSpecSearch /\ [][NextSearch]_vars

---------------------------------------------------------------------------
(* SpecItems: declaration search over packages of a few source files       *)

MaxSources == 2   \* entries of an archive of sources

Decl(item, ident, attrs, trait_, self_ty, start, end) ==
    [item |-> item, ident |-> ident, attrs |-> attrs, trait_ |-> trait_,
     self_ty |-> self_ty, start |-> start, end |-> end]

\* A regular entry with the syntax tree of its content
SourceEntry(rel, content, ast) ==
    [Entry(root_dir(Tokio), rel, "Regular", content) EXCEPT !.ast = ast]

NameFoo    == <<70, 111, 111>>                 \* "Foo"
NameLfoo   == <<102, 111, 111>>                \* "foo"
NameBar    == <<66, 97, 114>>                  \* "Bar"
NameFooBar == <<70, 111, 111, 66, 97, 114>>    \* "FooBar"

SourceEntrySet ==
    {SourceEntry(<<"src", "lib.rs">>, <<97, NL>>,
        Some(<<Decl("Struct", Some(NameFoo), <<[name |-> "doc", line |-> 1]>>,
                    None, <<>>, 2, 3),
               Decl("Impl", None, <<>>, None, NameFoo, 4, 5)>>)),
     SourceEntry(<<"src", "a", "c.rs">>, <<97, NL>>,
        Some(<<Decl("Struct", Some(NameLfoo), <<>>, None, <<>>, 1, 1),
               Decl("Fn", Some(NameBar),
                    <<[name |-> "proc_macro_attribute", line |-> 2]>>,
                    None, <<>>, 3, 4)>>)),
     SourceEntry(<<"a", "m.rs">>, <<97, NL>>,
        Some(<<Decl("Impl", None, <<>>, Some(NameBar), NameFoo, 1, 2),
               Decl("Macro", None, <<>>, None, <<>>, 3, 3),
               Decl("Macro", Some(NameLfoo), <<>>, None, <<>>, 4, 5)>>)),
     SourceEntry(<<"x.RS">>, <<97, NL>>,
        Some(<<Decl("Fn", Some(NameFooBar), <<>>, None, <<>>, 1, 2),
               Decl("Enum", Some(NameBar), <<>>, None, <<>>, 3, 4)>>)),
     SourceEntry(<<"a", "b", "c.rs">>, <<97, NL>>,
        Some(<<Decl("Trait", Some(NameFoo), <<>>, None, <<>>, 1, 2),
               Decl("Type", Some(NameBar), <<>>, None, <<>>, 3, 3),
               Decl("Const", Some(NameFoo), <<>>, None, <<>>, 4, 4),
               Decl("Struct", Some(NameFoo), <<>>, None, <<>>, 0, 0)>>)),
     SourceEntry(<<"src", "lib.rs">>, <<98, NL>>, None),
     SourceEntry(<<"a", "m.rs">>, <<InvalidByte>>, None),
     SourceEntry(<<"LICENSE">>, <<97, NL>>,
        Some(<<Decl("Struct", Some(NameFoo), <<>>, None, <<>>, 1, 1)>>))}

InitItems ==
    /\ tar \in {[crate_version |-> Tokio, open_ok |-> TRUE, entries |-> es] :
                   es \in SeqsUpTo(SourceEntrySet, MaxSources)}
    /\ krate = NoCrate
    /\ query = NoQuery
    /\ out = NoOut

ItemTypes ==
    {"All", "Struct", "Enum", "Trait", "ImplType", "ImplTraitForType", "Macro",
     "AttributeMacro", "Function", "TypeAlias"}

ItemQueries ==
    {[type_ |-> t, query |-> n, path |-> p] :
        t \in ItemTypes,
        n \in {<<>>, <<70, 79, 79>>, <<97, 114>>},
        p \in {None, Some(<<"src">>), Some(<<"a">>)}}

\* The keys of the maps of the index
IndexKeys(index) == UNION {DOMAIN index[m] : m \in SeqToSet(IndexMaps)}

\* Crate::search_item(query)
SearchItem ==
    /\ krate.ok
    /\ query.op = "build"
    /\ \E q \in ItemQueries, order \in Orders(IndexKeys(krate.item_search_index)) :
          /\ query' = [op |-> "search_item", q |-> q, order |-> order]
          /\ out' = search_item(krate, q, order)
    /\ UNCHANGED <<tar, krate>>

NextItems ==
    \/ BuildCrate /\ UNCHANGED <<cacheVars, authVars>>
    \/ SearchItem /\ UNCHANGED <<cacheVars, authVars>>

InitSpecItems == InitItems /\ InitCache /\ InitAuthIdle

SpecItems == InitSpecItems /\ [][NextItems]_vars

---------------------------------------------------------------------------
(* Claims about the cache, checked under SpecCache                         *)

\* Between the miss and the insert: the download and the build
Downloading(r) == req[r].pc \in {"send", "body", "gunzip", "build"}

\* C1: single-flight on miss.  Of the concurrent get_crate calls for one
\* absent key, at most one performs the download and the build.
C1_SingleFlight ==
    \A r1, r2 \in Reqs :
        (Downloading(r1) /\ Downloading(r2) /\ req[r1].key = req[r2].key)
            => r1 = r2

FileCount(c) == Cardinality(DOMAIN c.files_index)

\* Equal by file count and buffer length
SamePackage(c1, c2) ==
    c1.ok /\ c2.ok /\ FileCount(c1) = FileCount(c2) /\ Len(c1.data) = Len(c2.data)

\* C2: idempotent cache.  A get_crate(k) that finds k cached returns the
\* package without a download or a build; one that does not, and succeeds,
\* has made exactly one download and one build; and all the packages
\* returned for k are equal by file count and buffer length, to each other
\* and to the package the cache holds for k.
C2_IdempotentCache ==
    /\ \A r \in Reqs :
          req[r].pc = "done" =>
              IF req[r].cached
              THEN /\ req[r].res.kind = "Ok"
                   /\ req[r].downloads = 0
                   /\ req[r].builds = 0
              ELSE req[r].res.kind = "Ok" =>
                      req[r].downloads = 1 /\ req[r].builds = 1
    /\ \A r1, r2 \in Reqs :
          (/\ req[r1].pc = "done" /\ req[r1].res.kind = "Ok"
           /\ req[r2].pc = "done" /\ req[r2].res.kind = "Ok"
           /\ req[r1].key = req[r2].key)
              => SamePackage(req[r1].res.krate, req[r2].res.krate)
    /\ \A r \in Reqs, i \in 1..Len(cache.lru) :
          (/\ req[r].pc = "done" /\ req[r].res.kind = "Ok"
           /\ req[r].key = cache.lru[i].key)
              => SamePackage(req[r].res.krate, cache.lru[i].val)

\* A hit returned while the package of the call that missed is still held
C2_Witness ==
    \E r1, r2 \in Reqs :
        /\ req[r1].pc = "done" /\ req[r1].res.kind = "Ok" /\ ~req[r1].cached
        /\ req[r2].pc = "done" /\ req[r2].res.kind = "Ok" /\ req[r2].cached
        /\ req[r1].key = req[r2].key
        /\ req[r2].downloads = 0

\* CrateCache::get_crate would find k
Retrievable(k) == LruGet(cache.lru, k).found

\* C3: LRU bound.  Once more than `capacity` distinct keys have been
\* inserted, the keys retrievable from the cache are exactly the `capacity`
\* most recently used ones: after capacity + 1 distinct misses the least
\* recently used key is gone and the other keys are all there.
C3_LruBound ==
    Len(recency) > cache.cap =>
        \A i \in 1..Len(recency) : Retrievable(recency[i]) <=> i <= cache.cap

\* capacity + 1 distinct keys have been inserted
C3_Witness ==
    /\ Len(recency) = cache.cap + 1
    /\ Len(cache.lru) = cache.cap
    /\ ~Retrievable(recency[cache.cap + 1])

\* C4: a failed build leaves no trace.  A step of get_crate that fails
\* (download, decompression or index build) returns an error and leaves the
\* cache as it was, and a get_crate that does not find its key starts the
\* download, whatever has failed before.
C4_FailedBuildNoTrace ==
    [][\A r \in Reqs :
          /\ (Downloading(r) /\ req'[r].pc = "done")
                => (req'[r].res.kind = "Err" /\ cache' = cache)
          /\ (/\ req[r].pc = "get_locked" /\ req'[r].pc # "get_locked"
              /\ req[r].key \notin CacheKeys(cache.lru))
                => (req'[r].pc = "send" /\ cache' = cache)]_vars

\* A download started for a key whose build has failed in another task
C4_Witness ==
    \E r1, r2 \in Reqs :
        /\ req[r1].pc = "done" /\ req[r1].res = Err("build")
        /\ req[r2].pc = "send" /\ req[r2].retry
        /\ req[r2].key = req[r1].key
        /\ req[r1].key \notin CacheKeys(cache.lru)

---------------------------------------------------------------------------
(* Claims about the build, checked under SpecBuild                         *)

\* The first n components of a path
Ancestor(p, n) == SubSeq(p, 1, n)

\* C5: directory closure.  After a package is built, for every path p of
\* the file map every ancestor directory of p, the empty root included, is
\* a key of the directory index, and lists the child on the way to p: among
\* its files when the child is p, among its subdirectories otherwise.
C5_DirectoryClosure ==
    krate.ok =>
        \A p \in DOMAIN krate.files_index :
            \A n \in 0..(Len(p) - 1) :
                /\ Ancestor(p, n) \in DOMAIN krate.directories_index
                /\ IF n = Len(p) - 1
                   THEN p[n + 1] \in krate.directories_index[Ancestor(p, n)].files
                   ELSE p[n + 1] \in
                            krate.directories_index[Ancestor(p, n)].directories

---------------------------------------------------------------------------
(* Claims about reading a file by line range, checked under SpecFile       *)

\* The pieces of a byte sequence between its line terminators
RECURSIVE SplitNl(_)
SplitNl(s) ==
    IF \A i \in 1..Len(s) : s[i] # NL THEN <<s>>
    ELSE LET i == CHOOSE j \in 1..Len(s) :
                      s[j] = NL /\ \A h \in 1..(j - 1) : s[h] # NL
         IN <<SubSeq(s, 1, i - 1)>> \o SplitNl(SubSeq(s, i + 1, Len(s)))

\* The lines of a text: a terminator at the very end starts no further line
LinesOf(s) ==
    LET pieces == SplitNl(s)
    IN IF Last(pieces) = <<>> THEN SubSeq(pieces, 1, Len(pieces) - 1) ELSE pieces

\* Lines a through b with the terminators between them
RECURSIVE JoinNl(_, _, _)
JoinNl(lines, a, b) ==
    IF a > b THEN <<>>
    ELSE IF a = b THEN lines[a]
    ELSE lines[a] \o <<NL>> \o JoinNl(lines, a + 1, b)

\* The whole byte slice of a file of the package
FileBytes(file) ==
    Slice(krate.data, krate.files_index[file].range.start,
          krate.files_index[file].range.end)

\* The query read a UTF-8 file of the package from line a to line b
AskedLines(a, b) ==
    /\ query.op = "get_file"
    /\ query.file \in DOMAIN krate.files_index
    /\ krate.files_index[query.file].data_type = "Utf8"
    /\ query.start = Included(a)
    /\ query.end = Included(b)

\* C6: line-range extraction result.  For a UTF-8 file of n lines and
\* 1 <= start <= end <= n the result is exactly lines start through end:
\* with the terminators between them, without the terminator after line
\* end, and with all of line end when it is the last, unterminated line.
C6_LineRangeExact ==
    \A a, b \in 1..MaxLine :
        (/\ AskedLines(a, b)
         /\ a <= b
         /\ b <= Len(LinesOf(FileBytes(query.file))))
            => /\ out.kind = "Some"
               /\ out.data = JoinNl(LinesOf(FileBytes(query.file)), a, b)

\* C7: range round-trip.  For a UTF-8 file of n lines, terminated at its
\* end or not, the bytes returned for lines 1 through n split into the same
\* n lines as the whole file.
C7_RangeRoundTrip ==
    \A n \in 1..MaxLine :
        (AskedLines(1, n) /\ n = Len(LinesOf(FileBytes(query.file))))
            => /\ out.kind = "Some"
               /\ LinesOf(out.data) = LinesOf(FileBytes(query.file))

\* C8: binary guard.  A path absent from the file map is not found, without
\* an error, for every range.  For a NonUtf8 file, a range with a bound
\* fails and returns no bytes; the range without bounds returns the whole
\* byte slice of the file, tagged NonUtf8.
C8_BinaryGuard ==
    query.op = "get_file" =>
        IF query.file \notin DOMAIN krate.files_index
        THEN out = FileNone
        ELSE krate.files_index[query.file].data_type = "NonUtf8" =>
                IF query.start = Unbounded /\ query.end = Unbounded
                THEN /\ out.kind = "Some"
                     /\ out.data_type = "NonUtf8"
                     /\ out.data = FileBytes(query.file)
                ELSE out = FileErr

\* A bounded read of the binary file has failed
C8_Witness ==
    /\ query.op = "get_file"
    /\ query.file \in DOMAIN krate.files_index
    /\ krate.files_index[query.file].data_type = "NonUtf8"
    /\ query.start = Unbounded
    /\ query.end # Unbounded
    /\ out = FileErr

---------------------------------------------------------------------------
(* Claims about authentication, checked under SpecAuth                     *)

\* A request to a route under /api of a router built with credentials
ApiRequest ==
    /\ request # NoRequest
    /\ request.route \in ApiRoutes
    /\ authInfo.some

\* Basic credentials equal to the configured pair, username and password
Authenticated ==
    /\ request.authorization.kind = "Basic"
    /\ request.authorization.username = authInfo.val.username
    /\ request.authorization.password = authInfo.val.password

\* No Authorization header, or Basic credentials that differ from the pair
Unauthenticated ==
    \/ request.authorization.kind = "Absent"
    \/ request.authorization.kind = "Basic" /\ ~Authenticated

\* C9: authentication.  With credentials configured, a request to a route
\* under /api that is unauthenticated (no Authorization header, or Basic
\* credentials that differ from the configured pair) is answered 401 and
\* its handler is not run; the handler runs only when username and password
\* both equal the configured pair.
C9_Authentication ==
    ApiRequest =>
        /\ Unauthenticated =>
              response.status = StatusUnauthorized /\ ~response.handler_ran
        /\ response.handler_ran => Authenticated

---------------------------------------------------------------------------
(* Claims about line search, checked under SpecSearch                      *)

\* C10: regex cap.  A search_line with max_results = k that succeeds
\* returns at most k lines, also when the k-th match is in the middle of a
\* file and when more files remain.
C10_RegexCap ==
    (query.op = "search_line" /\ query.q.max_results.some /\ out.ok)
        => Len(out.results) <= query.q.max_results.val

\* The same search without a cap
Uncapped == search_line(krate, [query.q EXCEPT !.max_results = None], query.order)

\* The k-th match was found before the last line of a file that is not the
\* last file, and without the cap the search returns more than k lines
C10_Witness ==
    /\ query.op = "search_line"
    /\ query.q.max_results.some
    /\ out.ok
    /\ Len(out.results) = query.q.max_results.val
    /\ Uncapped.ok
    /\ Len(Uncapped.results) > Len(out.results) + 1
    /\ LET last == Last(out.results)
       IN /\ last.file # Last(query.order)
          /\ last.line_number < Len(ReadLines(FileBytes(last.file), 0))
          /\ Uncapped.results[Len(out.results) + 1].file = last.file
          /\ Last(Uncapped.results).file # last.file

---------------------------------------------------------------------------
(* Further claims about the build, checked under SpecBuild                 *)

\* C11: root exists.  For a built package whose file map is not empty,
\* read_directory of the empty path returns a listing, never 'not found',
\* at whatever depth the files lie.
C11_RootExists ==
    (/\ krate.ok
     /\ DOMAIN krate.files_index # {}
     /\ query.op = "read_directory"
     /\ query.path = <<>>)
        => out.some

\* The offsets of the buffer a descriptor covers
RangeBytes(desc) == {o \in 0..(Len(krate.data) - 1) :
                        desc.range.start <= o /\ o < desc.range.end}

\* C12: file descriptor partition.  After a build from any sequence of
\* entries, the byte ranges of the descriptors of the file map are pairwise
\* disjoint, each has lo <= hi <= buffer length, and together they cover
\* the whole buffer.
C12_DescriptorPartition ==
    krate.ok =>
        /\ \A p \in DOMAIN krate.files_index :
              /\ krate.files_index[p].range.start <= krate.files_index[p].range.end
              /\ krate.files_index[p].range.end <= Len(krate.data)
        /\ \A p, q \in DOMAIN krate.files_index :
              p # q => RangeBytes(krate.files_index[p])
                          \cap RangeBytes(krate.files_index[q]) = {}
        /\ \A o \in 0..(Len(krate.data) - 1) :
              \E p \in DOMAIN krate.files_index : o \in RangeBytes(krate.files_index[p])

\* An entry the build is to index: a regular file under the root directory
\* whose header, path and content can all be read
WellFormed(e) ==
    /\ e.hdr_ok /\ e.path_ok /\ e.read_ok
    /\ e.root = root_dir(tar.crate_version)
    /\ e.rel # <<>>
    /\ e.type = "Regular"

\* C13: per-entry errors are not fatal.  A build fails only when the tar
\* cannot be opened; an entry whose header, path or content cannot be read
\* is skipped, and the build succeeds with every other regular file indexed.
C13_EntryErrorsNotFatal ==
    (query.op # "none" /\ tar.open_ok) =>
        /\ krate.ok
        /\ \A i \in 1..Len(tar.entries) :
              WellFormed(tar.entries[i]) => tar.entries[i].rel \in DOMAIN krate.files_index

---------------------------------------------------------------------------
(* Further claims about reading by line range, checked under SpecFile      *)

\* C14: start > end returns empty.  For an existing UTF-8 file and bounds
\* with start > end, get_file_by_line_range returns no bytes of the file;
\* in particular not the lines from start to the end of the file.
C14_StartAfterEndEmpty ==
    \A a, b \in 1..MaxLine :
        (AskedLines(a, b) /\ a > b)
            => (out.kind = "Some" => out.data = <<>>)

\* The query read a UTF-8 file of the package from line a on, with no end
\* or with an end that is not before a
AskedFrom(a) ==
    /\ query.op = "get_file"
    /\ query.file \in DOMAIN krate.files_index
    /\ krate.files_index[query.file].data_type = "Utf8"
    /\ query.start = Included(a)
    /\ \/ query.end = Unbounded
       \/ \E b \in a..MaxLine : query.end = Included(b)

\* C15: out-of-range start yields an empty sub-slice.  For an existing
\* UTF-8 file of n lines and a start greater than n (end absent or not
\* before start) the read succeeds with a content of zero bytes, which is
\* not the 'not found' outcome of a path absent from the package.
C15_StartOutOfRangeEmpty ==
    \A a \in 1..MaxLine :
        (AskedFrom(a) /\ a > Len(LinesOf(FileBytes(query.file))))
            => /\ out.kind = "Some"
               /\ out.data = <<>>
               /\ out # FileNone

---------------------------------------------------------------------------
(* Further claims about line search, checked under SpecSearch              *)

\* The extensions a query lists: the segments between the commas, trimmed,
\* the empty ones dropped
ListedExts(q) == {Trim(q.file_ext[i]) : i \in 1..Len(q.file_ext)} \ {""}

\* The files of the package with a line the pattern matches
FilesWithMatch(q) ==
    {f \in DOMAIN krate.files_index :
        \E i \in 1..Len(ReadLines(FileBytes(f), 0)) :
            RegexFind(ReadLines(FileBytes(f), 0)[i], q).some}

ResultFiles == {out.results[i].file : i \in 1..Len(out.results)}

\* A search_line that has returned its lines
Searched == query.op = "search_line" /\ out.ok

\* C16 as stated: every Line returned has a file under query.path (when
\* given) and, when the parsed file_ext list is not empty, an extension
\* equal to one of the listed extensions.
C16_ExtensionEqualsListed ==
    Searched =>
        \A f \in ResultFiles :
            /\ query.q.path.some => StartsWith(f, query.q.path.val)
            /\ ListedExts(query.q) # {} =>
                  /\ Extension(Last(f)).some
                  /\ Extension(Last(f)).val \in ListedExts(query.q)

\* C16, amended: line search filters.  Every Line returned has a file of
\* which query.path is a path-component prefix (when given) and, when the
\* parsed file_ext list is not empty, an extension equal, ignoring ASCII
\* case, to one of the listed extensions; a file with no extension gives no
\* result under a non-empty list, and under an empty list (with no path and
\* no cap) every file with a matching line gives a result.
C16_LineSearchFilters ==
    Searched =>
        /\ \A f \in ResultFiles :
              /\ query.q.path.some => StartsWith(f, query.q.path.val)
              /\ ListedExts(query.q) # {} =>
                    /\ Extension(Last(f)).some
                    /\ \E e \in ListedExts(query.q) :
                          LowerExt(Extension(Last(f)).val) = LowerExt(e)
        /\ (/\ ListedExts(query.q) = {}
            /\ ~query.q.path.some
            /\ ~query.q.max_results.some)
              => ResultFiles = FilesWithMatch(query.q)

\* A search with a path and a list of extensions returned lines, and left
\* out a file with a matching line and no extension
C16_Witness ==
    /\ Searched
    /\ ListedExts(query.q) # {}
    /\ query.q.path.some
    /\ ResultFiles # {}
    /\ \E f \in FilesWithMatch(query.q) \ ResultFiles : ~Extension(Last(f)).some

---------------------------------------------------------------------------
(* Claims about declaration search, checked under SpecItems                *)

\* How many times x occurs in a sequence
Count(seq, x) == Cardinality({i \in 1..Len(seq) : seq[i] = x})

\* The items stored in the map of a kind, whatever their key
StoredItems(type_) ==
    UNION {SeqToSet(krate.item_search_index[MapOf(type_)][k]) :
              k \in DOMAIN krate.item_search_index[MapOf(type_)]}

\* A declaration search for one kind, without path, has returned
SearchedKind ==
    /\ query.op = "search_item"
    /\ query.q.type_ # "All"
    /\ ~query.q.path.some

\* C17: declaration match rule.  A search for kind K with query q returns
\* exactly the items of K's map whose key, the lowercased name, contains
\* lowercase(q): the match ignores case in the query and in the name, and
\* every item returned has kind K.
C17_DeclarationMatch ==
    /\ (query.op = "search_item" /\ query.q.type_ # "All") =>
          \A i \in 1..Len(out) : out[i].type_ = query.q.type_
    /\ SearchedKind =>
          /\ \A it \in StoredItems(query.q.type_) :
                IF Contains(to_lowercase(it.name), to_lowercase(query.q.query))
                THEN Count(out, it) >= 1
                ELSE Count(out, it) = 0
          /\ SeqToSet(out) \subseteq StoredItems(query.q.type_)
          /\ \A k \in DOMAIN krate.item_search_index[MapOf(query.q.type_)] :
                \A it \in SeqToSet(krate.item_search_index[MapOf(query.q.type_)][k]) :
                    /\ k = to_lowercase(it.name)
                    /\ Count(out, it) \in
                          {0, Count(krate.item_search_index[MapOf(query.q.type_)][k], it)}

\* A query in upper case found a name written in lower case and one with a
\* capital, and left a name without the query out
C17_Witness ==
    /\ SearchedKind
    /\ query.q.query = <<70, 79, 79>>
    /\ \E i, j \in 1..Len(out) : out[i].name = NameFoo /\ out[j].name = NameLfoo
    /\ krate.item_search_index # EmptyIndex

\* C18: declaration path scope.  When the ItemQuery has a path, every item
\* returned has a file of which the path is a path-component prefix: items
\* of files outside the path are not returned.
C18_DeclarationPathScope ==
    (query.op = "search_item" /\ query.q.path.some) =>
        \A i \in 1..Len(out) : StartsWith(out[i].file, query.q.path.val)

\* The same search without the path
Unscoped ==
    search_item(krate, [query.q EXCEPT !.path = None], query.order)

\* A search with a path returned items and left out items of other files
C18_Witness ==
    /\ query.op = "search_item"
    /\ query.q.path.some
    /\ Len(out) >= 1
    /\ Len(Unscoped) > Len(out)

---------------------------------------------------------------------------
(* Claims about the order and the size of the cache, checked under         *)
(* SpecCache                                                               *)

\* The keys of the cache, most recently used first
KeySeq(l) == [i \in 1..Len(l) |-> l[i].key]

\* The keys of h that the cache holds, in the order of h
Cached(h) == SelectSeq(h, LAMBDA k : k \in CacheKeys(cache.lru))

\* C19: access touches recency.  A get that finds k, like a put of k, makes
\* k the most recently used key of the cache, and the key that an insert
\* into a full cache evicts is the one whose last get or put is the oldest,
\* whenever it was inserted.
C19_AccessTouchesRecency ==
    [][/\ recency' # recency => KeySeq(cache'.lru)[1] = recency'[1]
       /\ \A k \in CacheKeys(cache.lru) \ CacheKeys(cache'.lru) :
             /\ Len(cache.lru) = cache.cap
             /\ k = Last(Cached(recency))
             /\ cache'.lru[1].key \notin CacheKeys(cache.lru)
       /\ KeySeq(cache'.lru) = SelectSeq(recency', LAMBDA k : k \in CacheKeys(cache'.lru))]_vars

\* The cache is full, a key inserted before another was got after it, and
\* an insert of a third key has evicted the one inserted later
C19_Witness ==
    /\ Len(cache.lru) = cache.cap
    /\ Len(inserted) = cache.cap + 1
    /\ inserted[2] \notin CacheKeys(cache.lru)
    /\ inserted[3] \in CacheKeys(cache.lru)
    /\ KeySeq(cache.lru)[1] = inserted[1]

\* C20: capacity invariant.  Under every interleaving of get_crate and
\* set_crate the cache holds at most `capacity` entries and at most one
\* entry per key, and the capacity is the one given at construction.
C20_CapacityInvariant ==
    /\ Len(cache.lru) <= cache.cap
    /\ \A i, j \in 1..Len(cache.lru) :
          cache.lru[i].key = cache.lru[j].key => i = j
    /\ cache.cap = Capacity

\* The cache is full while one task is about to put a key the cache does
\* not hold and another is about to put or get
C20_Witness ==
    /\ Len(cache.lru) = cache.cap
    /\ \E r1, r2 \in Reqs :
          /\ r1 # r2
          /\ req[r1].pc = "set"
          /\ req[r1].key \notin CacheKeys(cache.lru)
          /\ req[r2].pc \in {"get", "set", "reget"}

---------------------------------------------------------------------------
(* Claims about the lock, the handles and dropped calls, checked under     *)
(* SpecCache and SpecCancel                                                *)

\* The task is between self.lru.lock() and the end of the statement
Locked(r) == req[r].pc \in {"get_locked", "set_locked", "reget_locked"}

\* The task waits for the lock
WantsLock(r) == req[r].pc \in {"get", "set", "reget"}

\* C21: no work under the lock.  The mutex is held only by a task that is
\* inside one LruCache get or put, which ends without waiting for anything;
\* a task that downloads, decompresses or builds does not hold it, so a
\* task with another key takes the lock as soon as it is free.
C21_NoWorkUnderLock ==
    /\ \A r \in Reqs :
          /\ lock = r => Locked(r)
          /\ Locked(r) => lock = r
          /\ Locked(r) => ENABLED (CacheGet(r) \/ CacheSet(r) \/ CacheReget(r))
          /\ Downloading(r) => lock # r
    /\ \A r1, r2 \in Reqs :
          (Downloading(r2) /\ WantsLock(r1) /\ \A r \in Reqs : ~Locked(r))
              => ENABLED Lock(r1)

\* One task is inside a get or a put of the cache while a task with another
\* key downloads or builds
C21_Witness ==
    \E r1, r2 \in Reqs :
        /\ Downloading(r2)
        /\ Locked(r1)
        /\ lock = r1
        /\ req[r1].key # req[r2].key

\* The package built from the archive the registry serves for each key
RegistryCrate ==
    [k \in {KeyOf(i) : i \in 1..NumKeys} |-> CrateTryFrom(RegistryTar(k))]

\* The task holds a package handle that get_crate returned
HoldsHandle(r) == req[r].pc = "done" /\ req[r].res.kind = "Ok"

\* C22: package outlives eviction.  A handle returned by get_crate keeps the
\* buffer and the indices of the package built for its key, whether the key
\* is still cached, was evicted or was put again; the put that evicts or
\* replaces does not wait for the holder, and the holder finishes with the
\* handle whoever holds the cache lock.
C22_PackageOutlivesEviction ==
    /\ \A r \in Reqs :
          HoldsHandle(r) =>
              /\ req[r].res.krate = RegistryCrate[req[r].key]
              /\ read_directory(req[r].res.krate, <<>>) # None
              /\ ENABLED Return(r)
    /\ \A r1, r2 \in Reqs :
          (HoldsHandle(r1) /\ req[r2].pc = "set_locked")
              => ENABLED CacheSet(r2)

\* A task holds the handle of a key that a put of another task has evicted,
\* while another task is inside an operation of the full cache
C22_Witness ==
    \E r1, r2 \in Reqs :
        /\ HoldsHandle(r1)
        /\ req[r1].key \notin CacheKeys(cache.lru)
        /\ Len(cache.lru) = cache.cap
        /\ req[r1].res.krate.ok
        /\ lock = r2
        /\ r1 # r2

\* Every entry of the cache is the package built from the whole archive of
\* its key
FullyBuilt(l) ==
    \A i \in 1..Len(l) :
        /\ l[i].val.ok
        /\ l[i].val = RegistryCrate[l[i].key]

\* C23: cancellation safety.  A get_crate dropped while it downloads, while
\* it waits for the decompression or while it waits for the build leaves
\* the cache as it was: every entry is still there, unchanged, and stands
\* for a fully built package; there is no partial entry for the cancelled
\* key.
C23_CancellationSafety ==
    [][/\ \A r \in Reqs :
             (Downloading(r) /\ req'[r].pc = "cancelled") => cache' = cache
       /\ FullyBuilt(cache'.lru)]_vars

\* A get_crate was dropped while it waited for the build, the packages put
\* before are in the cache and the cancelled key is not
C23_Witness ==
    \E r \in Reqs :
        /\ req[r].pc = "cancelled"
        /\ req[r].builds = 1
        /\ Len(cache.lru) >= 1
        /\ req[r].key \notin CacheKeys(cache.lru)

\* The call downloaded and built the package of its key and has returned
BuiltAndReturned(r) ==
    /\ req[r].pc = "done"
    /\ req[r].downloads = 1
    /\ req[r].builds = 1
    /\ req[r].krate.ok

\* C25: a successful build always yields the package.  A get_crate whose
\* download and build have succeeded returns the package it built, never
\* the "Failed to get crate" error, whatever other tasks put into the cache
\* between its put and its second get.
C25_BuildYieldsPackage ==
    \A r \in Reqs :
        BuiltAndReturned(r) =>
            /\ req[r].res.kind = "Ok"
            /\ req[r].res.krate = req[r].krate

---------------------------------------------------------------------------
(* Claims about the declaration index and the file map, checked under      *)
(* SpecItems                                                               *)

\* Every item of an index, whatever its map and its key
IndexItems(index) ==
    UNION {UNION {SeqToSet(index[m][k]) : k \in DOMAIN index[m]} :
              m \in SeqToSet(IndexMaps)}

\* How many times an item is stored in an index
Stored(index, it) ==
    LET m == MapOf(it.type_)
        k == to_lowercase(it.name)
    IN IF k \in DOMAIN index[m] THEN Count(index[m][k], it) ELSE 0

\* The built package has been produced from the archive
Built == query # NoQuery

\* The entry of the archive whose content the file map keeps for a path:
\* the last one
LastEntry(f) ==
    tar.entries[CHOOSE i \in 1..Len(tar.entries) :
                   /\ tar.entries[i].rel = f
                   /\ \A j \in (i + 1)..Len(tar.entries) : tar.entries[j].rel # f]

\* The file stored for the path is a UTF-8 Rust source that does not parse
ParseFailed(f) ==
    /\ IsUtf8(LastEntry(f).content)
    /\ Extension(Last(f)).some
    /\ eq_ignore_ascii_case(Extension(Last(f)).val, "rs")
    /\ ~LastEntry(f).ast.some

\* C24: best-effort declaration indexing.  When a UTF-8 file with extension
\* rs does not parse, the build succeeds, the declaration index holds no
\* Item for the file, and the file is in the file map, with its content, and
\* in the listing of its parent directory.
C24_BestEffortIndexing ==
    Built =>
        \A f \in {tar.entries[i].rel : i \in 1..Len(tar.entries)} :
            ParseFailed(f) =>
                /\ krate.ok
                /\ \A it \in IndexItems(krate.item_search_index) : it.file # f
                /\ f \in DOMAIN krate.files_index
                /\ Slice(krate.data, krate.files_index[f].range.start,
                         krate.files_index[f].range.end) = LastEntry(f).content
                /\ Parent(f) \in DOMAIN krate.directories_index
                /\ Last(f) \in krate.directories_index[Parent(f)].files

\* C29: the declaration index agrees with the stored content.  After a
\* build, every Item of the index names a file of the file map that is
\* Utf8, and is an Item of the content the file map keeps for that file, as
\* often as that content declares it; no Item is left from content that a
\* later entry of the same path replaced.
C29_IndexAgreesWithContent ==
    (Built /\ krate.ok) =>
        \A it \in IndexItems(krate.item_search_index) :
            /\ it.file \in DOMAIN krate.files_index
            /\ krate.files_index[it.file].data_type = "Utf8"
            /\ Slice(krate.data, krate.files_index[it.file].range.start,
                     krate.files_index[it.file].range.end) = LastEntry(it.file).content
            /\ Stored(krate.item_search_index, it)
                  = Stored(update(EmptyIndex, it.file, LastEntry(it.file).ast), it)

\* The same two statements for the archives that hold every path once
DistinctPaths ==
    \A i, j \in 1..Len(tar.entries) :
        tar.entries[i].rel = tar.entries[j].rel => i = j

IndexingWithDistinctPaths ==
    DistinctPaths => (C24_BestEffortIndexing /\ C29_IndexAgreesWithContent)

---------------------------------------------------------------------------
(* Further claims about line search, checked under SpecSearch              *)

\* The pattern of the query compiles
Compiles(q) == q.mode = "PlainText" \/ q.compiles

\* The files the filters of the query let through, in the order of the scan
PassingFiles ==
    SelectSeq(query.order,
              LAMBDA f : PassesFilters(f, query.q, ParseFileExt(query.q.file_ext)))

\* C26: line search fails only on a bad pattern.  A search_line whose
\* pattern compiles returns a list, also for a package with NonUtf8 files
\* that pass the filters; the one error is a pattern that does not compile.
C26_SearchFailsOnlyOnPattern ==
    query.op = "search_line" => (out.ok <=> Compiles(query.q))

\* What the scan meets at line i of file f: a line that is not UTF-8, a
\* line with a match, or a line without
LineEvent(f, i) ==
    LET line == LinesOf(FileBytes(f))[i]
    IN IF ~IsUtf8(line) THEN [kind |-> "bad"]
       ELSE IF \E o \in 0..Len(line) : MatchesAt(line, o, query.q)
       THEN [kind |-> "match", file |-> f, line_number |-> i]
       ELSE [kind |-> "none"]

\* The lines of the passing files from file j on, in the order of the scan
RECURSIVE Events(_)
Events(j) ==
    IF j > Len(PassingFiles) THEN <<>>
    ELSE [i \in 1..Len(LinesOf(FileBytes(PassingFiles[j]))) |->
             LineEvent(PassingFiles[j], i)]
         \o Events(j + 1)

\* The first n events, and the matches among them
MatchesIn(ev, n) ==
    SelectSeq(SubSeq(ev, 1, n), LAMBDA e : e.kind = "match")

\* The file and the line number of each Line of a result
ResultKeys(results) ==
    [i \in 1..Len(results) |->
        [kind |-> "match", file |-> results[i].file,
         line_number |-> results[i].line_number]]

\* The lines examined by a search with cap k: up to the k-th match if there
\* is one, all of them if not
Examined(ev, k) ==
    IF Len(MatchesIn(ev, Len(ev))) < k THEN Len(ev)
    ELSE CHOOSE n \in 1..Len(ev) :
            /\ ev[n].kind = "match"
            /\ Len(MatchesIn(ev, n)) = k

\* A search_line with a cap and a pattern that compiles has returned
SearchedWithCap ==
    /\ query.op = "search_line"
    /\ Compiles(query.q)
    /\ query.q.max_results.some

\* C27: early stop is a prefix.  The result of a search with max_results =
\* k is the first min(k, m) Lines of the result of the same search without
\* a cap, in the same order; past the k-th match no line of the file and no
\* further file is examined, so what lies behind it has no effect.
C27_EarlyStopIsPrefix ==
    SearchedWithCap =>
        LET k  == query.q.max_results.val
            ev == Events(1)
            n  == Examined(ev, k)
        IN /\ (out.ok /\ Uncapped.ok) =>
                  out.results = SubSeq(Uncapped.results, 1,
                                       IF k < Len(Uncapped.results)
                                       THEN k ELSE Len(Uncapped.results))
           /\ out.ok <=> \A i \in 1..n : ev[i].kind # "bad"
           /\ out.ok => ResultKeys(out.results) = MatchesIn(ev, n)

\* The k-th match was found before a line that is not UTF-8: the search with
\* the cap returns its k Lines, the search without the cap fails on that line
C27_Witness ==
    /\ SearchedWithCap
    /\ out.ok
    /\ Len(out.results) = query.q.max_results.val
    /\ ~Uncapped.ok
    /\ \E i \in 1..Len(Events(1)) : Events(1)[i].kind = "bad"

\* The least offset at which the pattern matches in a line
Leftmost(line) ==
    CHOOSE o \in 0..Len(line) :
        /\ MatchesAt(line, o, query.q)
        /\ \A p \in 0..(o - 1) : ~MatchesAt(line, p, query.q)

\* A search_line without a cap has returned its lines
SearchedNoCap == Searched /\ ~query.q.max_results.some

\* C28: one result per matching line.  Without a cap, search_line returns
\* one Line for each line with a match of each file that passes the
\* filters, and no other; a Line has the 1-based number of the line in its
\* file and the columns [start + 1, end + 1) of the leftmost match, and the
\* Lines of one file come in increasing line_number.
C28_OneResultPerMatchingLine ==
    SearchedNoCap =>
        /\ {<<out.results[i].file, out.results[i].line_number>> :
                i \in 1..Len(out.results)}
              = {<<PassingFiles[j], i>> :
                    j \in 1..Len(PassingFiles), i \in 1..MaxLen} \cap
                {fl \in (DOMAIN krate.files_index) \X (1..MaxLen) :
                    /\ fl[2] <= Len(LinesOf(FileBytes(fl[1])))
                    /\ LineEvent(fl[1], fl[2]).kind = "match"}
        /\ \A a, b \in 1..Len(out.results) :
              (a < b /\ out.results[a].file = out.results[b].file)
                  => out.results[a].line_number < out.results[b].line_number
        /\ \A a \in 1..Len(out.results) :
              LET r    == out.results[a]
                  line == LinesOf(FileBytes(r.file))[r.line_number]
              IN /\ r.line_number >= 1
                 /\ r.line = line
                 /\ r.column_range =
                       [start |-> Leftmost(line) + 1,
                        end   |-> Leftmost(line) + Len(query.q.query) + 1]

\* A search without a cap returned two Lines of one file, the first of them
\* for a line with two matches, and Lines of another file
C28_Witness ==
    /\ SearchedNoCap
    /\ \E a, b \in 1..Len(out.results) :
          /\ a < b
          /\ out.results[a].file = out.results[b].file
          /\ \E o \in 1..Len(out.results[a].line) :
                /\ o > Leftmost(out.results[a].line)
                /\ MatchesAt(out.results[a].line, o, query.q)
    /\ \E a \in 1..Len(out.results) : out.results[a].file # out.results[1].file

---------------------------------------------------------------------------
(* A further claim about reading by line range, checked under SpecFile     *)

\* The query read a UTF-8 file of the package with at least one bound
AskedBounded ==
    /\ query.op = "get_file"
    /\ query.file \in DOMAIN krate.files_index
    /\ krate.files_index[query.file].data_type = "Utf8"
    /\ (query.start # Unbounded \/ query.end # Unbounded)

\* C30: line-range slices stay inside the file.  The bytes returned for a
\* UTF-8 file and a range with at least one bound are one piece of the
\* buffer that lies inside the byte range of the file and begins at the
\* start of a line; no byte of a neighbouring file is returned.
C30_SliceInsideFile ==
    (AskedBounded /\ out.kind = "Some") =>
        LET range == krate.files_index[query.file].range
        IN /\ range.start <= out.lo
           /\ out.lo <= out.hi
           /\ out.hi <= range.end
           /\ out.data = Slice(krate.data, out.lo, out.hi)
           /\ (out.lo = range.start \/ krate.data[out.lo] = NL)

\* A file with a file before it and a file after it in the buffer was read
\* from a line after its first to a line past its last, and the bytes up to
\* its end were returned
C30_Witness ==
    /\ AskedBounded
    /\ out.kind = "Some"
    /\ LET range == krate.files_index[query.file].range
       IN /\ range.start > 0
          /\ range.end < Len(krate.data)
          /\ out.lo > range.start
          /\ out.hi = range.end
          /\ query.start.kind = "Included"
          /\ query.end.kind = "Included"
          /\ query.end.n > Len(LinesOf(FileBytes(query.file)))

============================================================================
